---- MODULE Spec2Model ----
(***************************************************************************)
(* State-machine model of lutris/util/extract.py: format detection,        *)
(* backend dispatch, the staging directory and the merge of the staged     *)
(* content into the destination directory.                                 *)
(*                                                                         *)
(* The file system is a tree of nodes rooted at the parent directory of    *)
(* the destination.  Every os / shutil / subprocess call of the code is    *)
(* one action; each of them can also fail (the environment decides), and   *)
(* the external tools' exit codes and outputs are chosen by the            *)
(* environment.                                                            *)
(***************************************************************************)
EXTENDS Integers, Sequences, FiniteSets, TLC

VARIABLES fs, stack, budget, req, result, pre, staged, allocated, trace

vars == <<fs, stack, budget, req, result, pre, staged, allocated, trace>>

(***************************************************************************)
(* Bounds of the model.                                                    *)
(***************************************************************************)
\* number of client threads that may call extract_archive
NumProcs == 2
\* number of distinct values random_id() can return
NumIds == 2
\* nodes (files and directories) in an archive's tree
MaxArchiveNodes == 3
\* nodes (files and directories) already present in the destination
MaxDestNodes == 3

Procs == 1..NumProcs
Digits == <<"0", "1", "2", "3", "4", "5", "6", "7", "8", "9">>
\* str(uuid.uuid4()): 8-4-4-4-12 hexadecimal digits, here one per i
Uuid4(i) == "3fa9c0e" \o Digits[i + 1] \o "-7b1d-4c5a-9e2f-00000000000" \o Digits[i + 1]
\* lines 20-22: str(uuid.uuid4())[:8]
random_id(uuid) == SubSeq(uuid, 1, 8)
Ids == {random_id(Uuid4(i)) : i \in 0..(NumIds - 1)}
Names == {"a", "b"}

(***************************************************************************)
(* File-system nodes.  k is the kind of the node: a regular file with      *)
(* content c, a directory with entries e (a function from names to nodes), *)
(* "other" for what exists but is neither (a fifo, a socket, a dangling    *)
(* symlink) and "none" for a path that does not exist.                     *)
(***************************************************************************)
Empty == [n \in {} |-> 0]
File(c) == [k |-> "file", c |-> c, e |-> Empty]
Dir(e) == [k |-> "dir", c |-> "", e |-> e]
Other == [k |-> "other", c |-> "", e |-> Empty]
Absent == [k |-> "none", c |-> "", e |-> Empty]

\* entries e with name n bound to node v (removed when v is Absent)
EPut(e, n, v) ==
    IF v.k = "none"
    THEN [m \in DOMAIN e \ {n} |-> e[m]]
    ELSE [m \in DOMAIN e \cup {n} |-> IF m = n THEN v ELSE e[m]]

\* entries of one name
One(n, v) == [m \in {n} |-> v]

RECURSIVE Lookup(_, _)
\* the node at path p below node (a path is a sequence of names)
Lookup(node, p) ==
    IF p = <<>> THEN node
    ELSE IF node.k = "dir" /\ Head(p) \in DOMAIN node.e
         THEN Lookup(node.e[Head(p)], Tail(p))
         ELSE Absent

RECURSIVE Store(_, _, _)
\* node with the node at path p replaced by v; missing parents are created
Store(node, p, v) ==
    IF p = <<>> THEN v
    ELSE LET n == Head(p)
             child == IF node.k = "dir" /\ n \in DOMAIN node.e THEN node.e[n] ELSE Dir(Empty)
         IN Dir(EPut(node.e, n, Store(child, Tail(p), v)))

RECURSIVE Size(_)
RECURSIVE SumOver(_, _)
SumOver(e, S) ==
    IF S = {} THEN 0
    ELSE LET n == CHOOSE m \in S : TRUE IN Size(e[n]) + SumOver(e, S \ {n})
\* number of nodes of a tree
Size(node) == 1 + SumOver(node.e, DOMAIN node.e)
ESize(e) == SumOver(e, DOMAIN e)

Parent(p) == SubSeq(p, 1, Len(p) - 1)
Last(p) == p[Len(p)]

\* os.path.isfile, os.path.isdir, os.path.exists, os.listdir
IsFile(f, p) == Lookup(f, p).k = "file"
IsDir(f, p) == Lookup(f, p).k = "dir"
Exists(f, p) == Lookup(f, p).k # "none"
ListDir(f, p) == DOMAIN Lookup(f, p).e

(***************************************************************************)
(* Path strings.                                                           *)
(***************************************************************************)
EndsWith(s, suf) ==
    Len(s) >= Len(suf) /\ SubSeq(s, Len(s) - Len(suf) + 1, Len(s)) = suf

RECURSIVE LastSlash(_, _)
\* position of the last "/" among the first i characters of s, 0 if none
LastSlash(s, i) ==
    IF i = 0 THEN 0
    ELSE IF SubSeq(s, i, i) = "/" THEN i ELSE LastSlash(s, i - 1)

\* os.path.basename
Basename(s) == SubSeq(s, LastSlash(s, Len(s)) + 1, Len(s))

Cwd == "/w"
\* os.path.abspath for the paths of the model (no "." or ".." components)
AbsPath(s) == IF Len(s) > 0 /\ SubSeq(s, 1, 1) = "/" THEN s ELSE Cwd \o "/" \o s

\* line 136: ".extract-%s" % random_id()
StagingName(id) == ".extract-" \o id

\* a staging directory made next to the destination, in its parent
StagingPathSibling(to_directory, id) ==
    Append(SubSeq(to_directory, 1, Len(to_directory) - 1), StagingName(id))

\* a backend that extracts straight into the destination
StagingPathInPlace(to_directory, id) == to_directory

\* line 136: os.path.join(to_directory, ".extract-%s" % random_id())
StagingPath(to_directory, id) == Append(to_directory, StagingName(id))

(***************************************************************************)
(* is_7zip_supported (lines 25-71).  The values True, False and None of    *)
(* Python are the strings "True", "False" and "None".                      *)
(***************************************************************************)
supported_extractors ==
    {"7z", "xz", "bzip2", "gzip", "tar", "zip", "ar", "arj", "cab", "chm", "cpio",
     "cramfs", "dmg", "ext", "fat", "gpt", "hfs", "ihex", "iso", "lzh", "lzma", "mbr",
     "msi", "nsis", "ntfs", "qcow2", "rar", "rpm", "squashfs", "udf", "uefi", "vdi",
     "vhd", "vmdk", "wim", "xar", "z", "auto"}

UpperCase == "ABCDEFGHIJKLMNOPQRSTUVWXYZ"
LowerCase == "abcdefghijklmnopqrstuvwxyz"
\* one character in lower case
LowerChar(c) ==
    IF \E i \in 1..Len(UpperCase) : SubSeq(UpperCase, i, i) = c
    THEN LET i == CHOOSE j \in 1..Len(UpperCase) : SubSeq(UpperCase, j, j) = c
         IN SubSeq(LowerCase, i, i)
    ELSE c

RECURSIVE Lower(_)
\* str.lower
Lower(s) == IF Len(s) = 0 THEN "" ELSE LowerChar(SubSeq(s, 1, 1)) \o Lower(SubSeq(s, 2, Len(s)))

RECURSIVE LStripDots(_)
\* str.lstrip(".")
LStripDots(s) ==
    IF Len(s) > 0 /\ SubSeq(s, 1, 1) = "." THEN LStripDots(SubSeq(s, 2, Len(s))) ELSE s

RECURSIVE LastDot(_, _)
\* position of the last "." among the first i characters of s, 0 if none
LastDot(s, i) ==
    IF i = 0 THEN 0
    ELSE IF SubSeq(s, i, i) = "." THEN i ELSE LastDot(s, i - 1)

\* the second component of os.path.splitext(path): from the last dot of the
\* last path component, unless only dots come before it in that component
SplitExt(path) ==
    LET sep == LastSlash(path, Len(path))
        dot == LastDot(path, Len(path))
    IN IF dot > sep /\ \E i \in (sep + 1)..(dot - 1) : SubSeq(path, i, i) # "."
       THEN SubSeq(path, dot, Len(path))
       ELSE ""

\* the value of a Python bool
Truth(b) == IF b THEN "True" ELSE "False"

\* lines 66-71; a call that gets past line 69 with an empty ext returns None
is_7zip_supported(path, extractor) ==
    IF extractor \notin {"None", ""}
    THEN Truth(Lower(extractor) \in supported_extractors)
    ELSE LET ext == SplitExt(path)
         IN IF ext # "" THEN Truth(Lower(LStripDots(ext)) \in supported_extractors) ELSE "None"

(***************************************************************************)
(* guess_extractor and get_archive_opener.  None is the string "None".     *)
(***************************************************************************)
\* a guess_extractor that tests the .gz suffix before the tar suffixes
guess_extractor_gz_first(path) ==
    IF EndsWith(path, ".gz") THEN "gzip"
    ELSE IF EndsWith(path, ".tar") THEN "tar"
    ELSE IF EndsWith(path, ".tar.gz") \/ EndsWith(path, ".tgz") THEN "tgz"
    ELSE IF EndsWith(path, ".tar.xz") \/ EndsWith(path, ".txz") \/ EndsWith(path, ".tar.lzma") THEN "txz"
    ELSE IF EndsWith(path, ".tar.bz2") \/ EndsWith(path, ".tbz2") \/ EndsWith(path, ".tbz") THEN "tbz2"
    ELSE IF EndsWith(path, ".tar.zst") \/ EndsWith(path, ".tzst") THEN "tzst"
    ELSE IF EndsWith(path, ".exe") THEN "exe"
    ELSE IF EndsWith(path, ".deb") THEN "deb"
    ELSE IF EndsWith(path, ".AppImage") THEN "AppImage"
    ELSE "None"

\* lines 74-96
guess_extractor(path) ==
    IF EndsWith(path, ".tar") THEN "tar"
    ELSE IF EndsWith(path, ".tar.gz") \/ EndsWith(path, ".tgz") THEN "tgz"
    ELSE IF EndsWith(path, ".tar.xz") \/ EndsWith(path, ".txz") \/ EndsWith(path, ".tar.lzma") THEN "txz"
    ELSE IF EndsWith(path, ".tar.bz2") \/ EndsWith(path, ".tbz2") \/ EndsWith(path, ".tbz") THEN "tbz2"
    ELSE IF EndsWith(path, ".tar.zst") \/ EndsWith(path, ".tzst") THEN "tzst"
    ELSE IF EndsWith(path, ".gz") THEN "gzip"
    ELSE IF EndsWith(path, ".exe") THEN "exe"
    ELSE IF EndsWith(path, ".deb") THEN "deb"
    ELSE IF EndsWith(path, ".AppImage") THEN "AppImage"
    ELSE "None"

\* the opener is "tarfile" for tarfile.open; mode is "None" when not set
get_archive_opener(extractor) ==
    IF extractor = "tar" THEN [opener |-> "tarfile", mode |-> "r:"]
    ELSE IF extractor = "tgz" THEN [opener |-> "tarfile", mode |-> "r:gz"]
    ELSE IF extractor = "txz" THEN [opener |-> "tarfile", mode |-> "r:xz"]
    ELSE IF extractor \in {"tbz2", "bz2"} THEN [opener |-> "tarfile", mode |-> "r:bz2"]
    ELSE IF extractor = "tzst" THEN [opener |-> "tarfile", mode |-> "r:zst"]
    ELSE IF extractor = "gzip" THEN [opener |-> "gz", mode |-> "None"]
    ELSE IF extractor = "gog" THEN [opener |-> "innoextract", mode |-> "None"]
    ELSE IF extractor = "exe" THEN [opener |-> "exe", mode |-> "None"]
    ELSE IF extractor = "deb" THEN [opener |-> "deb", mode |-> "None"]
    ELSE IF extractor = "AppImage" THEN [opener |-> "AppImage", mode |-> "None"]
    ELSE [opener |-> "7zip", mode |-> "None"]

(***************************************************************************)
(* Archives, destinations and requests the model is run on.                *)
(***************************************************************************)
EntriesOver(S) == UNION {[D -> S] : D \in SUBSET Names}
Level0(c) == {File(c)}
Level1(c) == {File(c)} \cup {Dir(e) : e \in EntriesOver(Level0(c)) \ {Empty}}
Level2(c) == {File(c), Dir(Empty)} \cup {Dir(e) : e \in EntriesOver(Level1(c)) \ {Empty}}
\* the trees of files with content c that have at most n nodes (directories
\* below the top level are not empty)
Trees(c, n) == {e \in EntriesOver(Level2(c)) : ESize(e) <= n}

ArchiveTrees == Trees("new", MaxArchiveNodes)
\* destinations, some with an entry that is neither a file nor a directory
DestTrees ==
    Trees("old", MaxDestNodes)
        \cup {EPut(d, "a", Other) : d \in {e \in Trees("old", MaxDestNodes) : ESize(e) <= 1}}
\* the trees of at most one node, for the runs that go through every backend
SmallArchiveTrees == {e \in ArchiveTrees : ESize(e) <= 1}
SmallDestTrees == {e \in DestTrees : ESize(e) <= 1}

\* a Debian package: the control.tar* and data.tar* members of its AR
\* container (by extension) and the tree inside the data tarball
NoDeb == [controls |-> {}, datas |-> {}]
DebVariants ==
    { [controls |-> {".gz"}, datas |-> {".xz"}],
      [controls |-> {".xz", ""}, datas |-> {".lzma", ""}],
      [controls |-> {}, datas |-> {".zst"}],
      [controls |-> {".zst"}, datas |-> {}] }

\* the trees inside the data tarball of a package, and the destinations a
\* package is extracted into
DebTrees == {t \in SmallArchiveTrees : "b" \notin DOMAIN t} \cup {One("a", Dir(One("b", File("new"))))}
DebDests == {d \in SmallDestTrees : "b" \notin DOMAIN d}

Request(path, extractor, ms, tree, deb) ==
    [path |-> path, extractor |-> extractor, merge_single |-> ms, tree |-> tree, deb |-> deb]

\* source path and extractor override ("None": no override) of every backend
KindInputs ==
    { <<"x.tar", "None">>, <<"/x.tgz", "None">>, <<"/x.tar.xz", "None">>,
      <<"/x.tbz", "None">>, <<"/x.tzst", "None">>,
      <<"/s.exe", "None">>, <<"/s.exe", "gog">>,
      <<"/z.zip", "None">>, <<"/z.bin", "zip">>, <<"/z.bin", "auto">> }
\* the same for the backends that stage the source file itself
FileInputs == { <<"/b.gz", "None">>, <<"b.gz", "None">>, <<"/a.AppImage", "None">> }

Scenarios ==
    { [req |-> Request(i[1], i[2], ms, t, NoDeb), dest |-> d] :
        i \in KindInputs, ms \in BOOLEAN, t \in SmallArchiveTrees, d \in SmallDestTrees }
    \cup
    { [req |-> Request(i[1], i[2], ms, Empty, NoDeb), dest |-> d] :
        i \in FileInputs, ms \in BOOLEAN, d \in SmallDestTrees }
    \cup
    { [req |-> Request("/p.deb", "None", ms, t, v), dest |-> d] :
        ms \in BOOLEAN, t \in DebTrees, v \in DebVariants, d \in DebDests }
    \cup
    { [req |-> Request("/x.tar", "None", ms, t, NoDeb), dest |-> d] :
        ms \in BOOLEAN, t \in ArchiveTrees, d \in DestTrees }

(***************************************************************************)
(* Calls.  stack[p] is the stack of extract_archive activations of thread  *)
(* p, innermost first; extract_deb calls extract_archive recursively.      *)
(***************************************************************************)
DestPath == <<"dest">>

Frame(path, to_directory, ms, extractor, tree) ==
    [pc |-> "start", path |-> path, to_directory |-> to_directory,
     merge_single |-> ms, extractor |-> extractor, opener |-> "", mode |-> "",
     temp_dir |-> <<>>, temp_path |-> <<>>, extracted |-> {}, todo |-> {},
     cur |-> "", tree |-> tree]

NoRet == [src |-> "", dst |-> <<>>]
NoResult == [status |-> "none", exc |-> "", cause |-> "", at |-> "", entry |-> "", ret |-> NoRet]

Top(p) == Head(stack[p])
Running(p, pc) == stack[p] # <<>> /\ Top(p).pc = pc
SetTop(p, f) == stack' = [stack EXCEPT ![p] = <<f>> \o Tail(stack[p])]
Goto(p, pc) == SetTop(p, [Top(p) EXCEPT !.pc = pc])

\* the steps of a call that run inside the try block of lines 137-141
\* (a caller waiting for the recursive call of extract_deb is at "deb_remove")
TryPcs ==
    {"tarfile", "gz", "7zip", "probe", "exe_test", "innoextract", "AppImage",
     "deb_mkdir", "deb_control", "deb_data", "deb_remove"}

\* an except clause that also takes RuntimeError
CaughtWithRuntimeError(exc) ==
    exc \in {"OSError", "zlib.error", "ReadError", "EOFError", "RuntimeError"}

\* except (OSError, zlib.error, tarfile.ReadError, EOFError)
Caught(exc) == exc \in {"OSError", "zlib.error", "ReadError", "EOFError"}

\* the exception that leaves an activation in which exc was raised
HandlerAt(frame, exc) ==
    IF frame.pc \in TryPcs /\ Caught(exc) THEN "ExtractError" ELSE exc

RECURSIVE Propagate(_, _)
\* the exception that reaches the caller of the outermost activation
Propagate(stk, exc) ==
    IF stk = <<>> THEN exc ELSE Propagate(Tail(stk), HandlerAt(Head(stk), exc))

\* thread p's current step raises exc
Raise(p, exc, cause) ==
    /\ result' = [result EXCEPT ![p] =
            [status |-> "raised", exc |-> Propagate(stack[p], exc),
             cause |-> cause, at |-> Top(p).pc, entry |-> Top(p).cur, ret |-> NoRet]]
    /\ stack' = [stack EXCEPT ![p] = <<>>]

Event(cmd, rc, arg) == [cmd |-> cmd, rc |-> rc, arg |-> arg]
Log(p, ev) == trace' = [trace EXCEPT ![p] = Append(@, ev)]

Init ==
    \E sc \in Scenarios :
        /\ fs = Dir(One("dest", Dir(sc.dest)))
        /\ stack = [p \in Procs |-> <<>>]
        /\ budget = [p \in Procs |-> IF p = 1 THEN 1 ELSE 0]
        /\ req = [p \in Procs |-> sc.req]
        /\ result = [p \in Procs |-> NoResult]
        /\ pre = [p \in Procs |-> Empty]
        /\ staged = [p \in Procs |-> Absent]
        /\ allocated = [p \in Procs |-> {}]
        /\ trace = [p \in Procs |-> <<>>]

\* a client calls extract_archive(path, to_directory, merge_single, extractor)
Call(p) ==
    /\ budget[p] > 0
    /\ stack[p] = <<>>
    /\ budget' = [budget EXCEPT ![p] = @ - 1]
    /\ stack' = [stack EXCEPT ![p] =
            <<Frame(req[p].path, DestPath, req[p].merge_single, req[p].extractor, req[p].tree)>>]
    /\ result' = [result EXCEPT ![p] = NoResult]
    /\ pre' = [pre EXCEPT ![p] = Lookup(fs, DestPath).e]
    /\ staged' = [staged EXCEPT ![p] = Absent]
    /\ allocated' = [allocated EXCEPT ![p] = {}]
    /\ trace' = [trace EXCEPT ![p] = <<>>]
    /\ UNCHANGED <<fs, req>>

\* an extract_archive that trusts a known suffix more than the override
ChooseExtractorSuffixFirst(extractor, path) ==
    IF guess_extractor(path) # "None" THEN guess_extractor(path) ELSE extractor

\* lines 131-132: the suffix is looked at only when no extractor is given
ChooseExtractor(extractor, path) ==
    IF extractor = "None" THEN guess_extractor(path) ELSE extractor

\* the first step of the backend of an opener (_do_extract, lines 185-201)
BackendEntry(opener) ==
    CASE opener = "gz" -> "gz"
      [] opener = "7zip" -> "7zip"
      [] opener = "exe" -> "probe"
      [] opener = "innoextract" -> "probe"
      [] opener = "deb" -> "7zip"
      [] opener = "AppImage" -> "AppImage"
      [] OTHER -> "tarfile"

\* lines 128-136: abspath, guess_extractor, get_archive_opener, and the
\* staging path <to_directory>/.extract-<random_id()>
Start(p) ==
    /\ Running(p, "start")
    /\ \E id \in Ids :
        LET f == Top(p)
            extractor == ChooseExtractor(f.extractor, AbsPath(f.path))
            o == get_archive_opener(extractor)
            tmp == StagingPath(f.to_directory, id)
        IN /\ SetTop(p, [f EXCEPT !.path = AbsPath(f.path), !.extractor = extractor,
                                   !.opener = o.opener, !.mode = o.mode,
                                   !.temp_dir = tmp, !.temp_path = tmp,
                                   !.pc = BackendEntry(o.opener)])
           /\ allocated' = [allocated EXCEPT ![p] = @ \cup {tmp}]
    /\ UNCHANGED <<fs, budget, req, result, pre, staged, trace>>

(***************************************************************************)
(* The backends (_do_extract and the functions it calls).                  *)
(***************************************************************************)
Step(p, pc) == Goto(p, pc) /\ UNCHANGED result

RECURSIVE Overlay(_, _)
\* entries d after the entries s have been extracted over them
Overlay(d, s) ==
    [n \in DOMAIN d \cup DOMAIN s |->
        IF n \notin DOMAIN s THEN d[n]
        ELSE IF n \in DOMAIN d /\ d[n].k = "dir" /\ s[n].k = "dir"
             THEN Dir(Overlay(d[n].e, s[n].e))
             ELSE s[n]]

\* the file system after a backend has written entries into directory stage
\* (the directory is created when missing)
Populate(f, stage, entries) ==
    LET cur == Lookup(f, stage)
    IN Store(f, stage, Dir(Overlay(IF cur.k = "dir" THEN cur.e ELSE Empty, entries)))

RECURSIVE Order(_)
\* the members of an archive in the order in which they are stored
Order(S) ==
    IF S = {} THEN <<>>
    ELSE LET n == CHOOSE m \in S : TRUE IN <<n>> \o Order(S \ {n})

\* what an extraction that stops early can have written: nothing at all, or
\* the first i top-level members of the archive
Partial(f, stage, entries, order) ==
    {f} \cup {Populate(f, stage, [n \in {order[j] : j \in 1..i} |-> entries[n]]) :
                i \in 0..Len(order)}

\* system.create_folder(path): the directory exists afterwards
create_folder(f, path) == IF IsDir(f, path) THEN f ELSE Store(f, path, Dir(Empty))

\* the step after the backend: extract_deb goes on after extract_7zip
AfterBackend(f) == "merge_single"
After7zip(f) == IF f.opener = "deb" THEN "deb_mkdir" ELSE AfterBackend(f)

\* lines 198-201: tarfile.open(archive, mode).extractall(dest)
ExtractTar(p) ==
    /\ Running(p, "tarfile")
    /\ LET f == Top(p) IN
        \/ /\ fs' = IF f.tree = Empty THEN fs ELSE Populate(fs, f.temp_dir, f.tree)
           /\ Step(p, AfterBackend(f))
        \/ \E exc \in {"OSError", "ReadError", "EOFError", "zlib.error"} :
           \E g \in Partial(fs, f.temp_dir, f.tree, Order(DOMAIN f.tree)) :
              /\ fs' = g
              /\ Raise(p, exc, IF exc = "OSError" THEN "io" ELSE "decode")
        \/ /\ f.mode = "r:zst"
           /\ fs' = fs
           /\ Raise(p, "CompressionError", "decode")
    /\ UNCHANGED <<budget, req, pre, staged, allocated, trace>>

\* lines 296-307: decompress_gz(archive, dest)
DecompressGz(p) ==
    /\ Running(p, "gz")
    /\ LET f == Top(p)
           name == Basename(SubSeq(f.path, 1, Len(f.path) - 3))
       IN
        \/ /\ fs' = Populate(fs, f.temp_dir, One(name, File("new")))
           /\ Step(p, AfterBackend(f))
        \/ /\ fs' = fs
           /\ Raise(p, "OSError", "io")
        \/ \E exc \in {"OSError", "EOFError", "zlib.error"} :
              /\ fs' = Populate(fs, f.temp_dir, One(name, File("partial")))
              /\ Raise(p, exc, IF exc = "OSError" THEN "io" ELSE "decode")
    /\ UNCHANGED <<budget, req, pre, staged, allocated, trace>>

\* the members 7z finds in the AR container of a Debian package
DebMembers(deb) ==
    [n \in {"debian-binary"} \cup {"control.tar" \o x : x \in deb.controls}
                             \cup {"data.tar" \o x : x \in deb.datas} |->
        IF n = "debian-binary" THEN File("2.0")
        ELSE IF SubSeq(n, 1, 1) = "c" THEN File("control") ELSE File("data")]

ControlExts == <<".gz", ".xz", ".zst", "">>
DataExts == <<".gz", ".xz", ".zst", ".bz2", ".lzma", "">>

Present(exts, S) == SelectSeq(exts, LAMBDA x : x \in S)
Prefixed(base, exts) == [i \in 1..Len(exts) |-> base \o exts[i]]
\* the members of the AR container in the order in which they are stored
DebOrder(deb) ==
    <<"debian-binary">> \o Prefixed("control.tar", Present(ControlExts, deb.controls))
                        \o Prefixed("data.tar", Present(DataExts, deb.datas))

\* the archive_type argument of extract_7zip (lines 189, 215, 222)
ArchiveType(f) ==
    CASE f.opener = "deb" -> "ar"
      [] f.opener = "7zip" -> f.extractor
      [] OTHER -> "None"

\* an extract_7zip that leaves out only the test for auto
TypeFlagAlsoAuto(t) == IF t # "None" THEN "-t" \o t ELSE ""

\* lines 315-316: the -t flag of the 7z command
TypeFlag(t) == IF t # "None" /\ t # "auto" THEN "-t" \o t ELSE ""

\* lines 310-317: extract_7zip(path, dest, archive_type); line 317 calls
\* subprocess.call(command) and does not look at the exit code
Extract7zip(p) ==
    /\ Running(p, "7zip")
    /\ LET f == Top(p)
           content == IF f.opener = "deb" THEN DebMembers(req[p].deb) ELSE f.tree
           order == IF f.opener = "deb" THEN DebOrder(req[p].deb) ELSE Order(DOMAIN f.tree)
           flag == TypeFlag(ArchiveType(f))
       IN
        \/ /\ fs' = fs
           /\ Log(p, Event("7z x", -1, "missing"))
           /\ Raise(p, "MissingExecutableError", "tool_missing")
        \/ /\ fs' = fs
           /\ UNCHANGED trace
           /\ Raise(p, "OSError", "io")
        \/ /\ fs' = Populate(fs, f.temp_dir, content)
           /\ Log(p, Event("7z x", 0, flag))
           /\ Step(p, After7zip(f))
        \/ \E rc \in {2} : \E g \in Partial(fs, f.temp_dir, content, order) :
              /\ fs' = g
              /\ Log(p, Event("7z x", rc, flag))
              /\ Step(p, After7zip(f))
    /\ UNCHANGED <<budget, req, pre, staged, allocated>>

\* an extract_exe that gives up, like extract_gog, when the probe says no
AfterProbeInstallerOnly(p, r) ==
    IF r THEN Step(p, "innoextract") ELSE Raise(p, "RuntimeError", "not_gog")

\* what follows check_inno_exe returning r (lines 205-207 and 250-253)
AfterProbe(p, r) ==
    IF r THEN Step(p, "innoextract")
    ELSE IF Top(p).opener = "exe" THEN Step(p, "exe_test")
    ELSE Raise(p, "RuntimeError", "not_gog")

\* lines 269-279: check_inno_exe(path), with get_innoextract_path
CheckInnoExe(p) ==
    /\ Running(p, "probe")
    /\ \/ /\ Log(p, Event("check_inno_exe", -1, "missing"))
          /\ AfterProbe(p, FALSE)
       \/ /\ UNCHANGED trace
          /\ Raise(p, "OSError", "io")
       \/ \E rc \in {0, 1} :
          /\ Log(p, Event("innoextract -i", rc, ""))
          /\ AfterProbe(p, rc = 0)
    /\ UNCHANGED <<fs, budget, req, pre, staged, allocated>>

\* an extract_exe that does not look at the exit code of the test
AfterTestIgnoresCode(p, return_code) == Step(p, "7zip")

\* lines 214-217: extract with 7z only when the test returned 0
AfterTest(p, return_code) ==
    IF return_code = 0 THEN Step(p, "7zip")
    ELSE Raise(p, "RuntimeError", "not_archive")

\* lines 208-217: the 7za test of extract_exe
ExeTest(p) ==
    /\ Running(p, "exe_test")
    /\ \/ /\ Log(p, Event("7za t", -1, "missing"))
          /\ Raise(p, "MissingExecutableError", "tool_missing")
       \/ /\ Log(p, Event("7za t", -1, "oserror"))
          /\ Raise(p, "OSError", "io")
       \/ \E rc \in {0, 2} :
          /\ Log(p, Event("7za t", rc, ""))
          /\ AfterTest(p, rc)
    /\ UNCHANGED <<fs, budget, req, pre, staged, allocated>>

\* lines 288-293: decompress_gog(file_path, destination_path)
DecompressGog(p) ==
    /\ Running(p, "innoextract")
    /\ LET f == Top(p) IN
        \/ /\ fs' = fs
           /\ Log(p, Event("decompress_gog", -1, "missing"))
           /\ Raise(p, "MissingExecutableError", "tool_missing")
        \/ /\ fs' = fs
           /\ UNCHANGED trace
           /\ Raise(p, "OSError", "io")
        \/ /\ fs' = Populate(fs, f.temp_dir, f.tree)
           /\ Log(p, Event("innoextract -e", 0, ""))
           /\ Step(p, AfterBackend(f))
        \/ \E g \in Partial(create_folder(fs, f.temp_dir), f.temp_dir, f.tree, Order(DOMAIN f.tree)) :
              /\ fs' = g
              /\ Log(p, Event("innoextract -e", 1, ""))
              /\ Raise(p, "RuntimeError", "inno_failed")
    /\ UNCHANGED <<budget, req, pre, staged, allocated>>

\* lines 242-246: extract_AppImage(path, dest)
ExtractAppImage(p) ==
    /\ Running(p, "AppImage")
    /\ LET f == Top(p) IN
        \/ /\ fs' = Populate(fs, f.temp_dir, One(Basename(f.path), File("new")))
           /\ Step(p, AfterBackend(f))
        \/ \E g \in {fs, create_folder(fs, f.temp_dir)} :
              /\ fs' = g
              /\ Raise(p, "OSError", "io")
    /\ UNCHANGED <<budget, req, pre, staged, allocated, trace>>

(***************************************************************************)
(* extract_deb (lines 220-239).                                            *)
(***************************************************************************)
RECURSIVE FirstPresent(_, _, _, _)
\* the first name base+ext, ext taken in the order of exts, that exists in
\* directory dir; "" when there is none (the for ... break loops)
FirstPresent(f, dir, base, exts) ==
    IF exts = <<>> THEN ""
    ELSE IF Exists(f, Append(dir, base \o Head(exts))) THEN base \o Head(exts)
    ELSE FirstPresent(f, dir, base, Tail(exts))

RECURSIVE PathStr(_)
PathStr(path) == IF path = <<>> THEN "" ELSE "/" \o Head(path) \o PathStr(Tail(path))

\* the result of shutil.move(src, dst): ok is FALSE when it raises
MoveResult(f, src, dst) ==
    LET s == Lookup(f, src)
        real_dst == IF IsDir(f, dst) THEN Append(dst, Last(src)) ELSE dst
        t == Lookup(f, real_dst)
    IN IF \/ s.k = "none"
          \/ IsDir(f, dst) /\ t.k # "none"
          \/ ~IsDir(f, Parent(real_dst))
          \/ t.k # "none" /\ s.k = "dir"
       THEN [ok |-> FALSE, fs |-> f]
       ELSE [ok |-> TRUE, fs |-> Store(Store(f, src, Absent), real_dst, s)]

\* lines 223-224: os.makedirs(debian_folder)
DebMkdir(p) ==
    /\ Running(p, "deb_mkdir")
    /\ LET f == Top(p)
           debian_folder == Append(f.temp_dir, "debian")
       IN
        \/ /\ ~Exists(fs, debian_folder)
           /\ fs' = Store(fs, debian_folder, Dir(Empty))
           /\ Step(p, "deb_control")
        \/ /\ Exists(fs, debian_folder)
           /\ fs' = fs
           /\ Raise(p, "OSError", "io")
        \/ /\ fs' = fs
           /\ Raise(p, "OSError", "io")
    /\ UNCHANGED <<budget, req, pre, staged, allocated, trace>>

\* lines 226-231: move the first control.tar* present into debian/
DebControl(p) ==
    /\ Running(p, "deb_control")
    /\ LET f == Top(p)
           name == FirstPresent(fs, f.temp_dir, "control.tar", ControlExts)
           m == MoveResult(fs, Append(f.temp_dir, name), Append(f.temp_dir, "debian"))
       IN
        \/ /\ name = ""
           /\ fs' = fs
           /\ Step(p, "deb_data")
        \/ /\ name # "" /\ m.ok
           /\ fs' = m.fs
           /\ Step(p, "deb_data")
        \/ /\ name # ""
           /\ fs' = fs
           /\ Raise(p, "OSError", "io")
    /\ UNCHANGED <<budget, req, pre, staged, allocated, trace>>

\* lines 233-237: extract_archive(data_tar_path, dest) on the first
\* data.tar* present; the caller goes on at line 238 when it returns
DebData(p) ==
    /\ Running(p, "deb_data")
    /\ LET f == Top(p)
           name == FirstPresent(fs, f.temp_dir, "data.tar", DataExts)
       IN IF name = ""
          THEN Goto(p, AfterBackend(f))
          ELSE stack' = [stack EXCEPT ![p] =
                    <<Frame(PathStr(Append(f.temp_dir, name)), f.temp_dir, TRUE, "None", req[p].tree),
                      [f EXCEPT !.pc = "deb_remove", !.cur = name]>> \o Tail(stack[p])]
    /\ UNCHANGED <<fs, budget, req, result, pre, staged, allocated, trace>>

\* line 238: os.remove(data_tar_path)
DebRemove(p) ==
    /\ Running(p, "deb_remove")
    /\ LET f == Top(p)
           data_tar_path == Append(f.temp_dir, f.cur)
       IN
        \/ /\ Lookup(fs, data_tar_path).k \in {"file", "other"}
           /\ fs' = Store(fs, data_tar_path, Absent)
           /\ Step(p, AfterBackend(f))
        \/ /\ fs' = fs
           /\ Raise(p, "OSError", "io")
    /\ UNCHANGED <<budget, req, pre, staged, allocated, trace>>

(***************************************************************************)
(* The merge of the staged content into to_directory (lines 142-182).      *)
(***************************************************************************)
\* a flattening test that is off by one: len(extracted) >= 1
FlattenCondAtLeastOne(extracted) == Cardinality(extracted) >= 1

\* line 144: len(extracted) == 1
FlattenCond(extracted) == Cardinality(extracted) = 1

\* extracted[0]; the code reads it only when extracted has one element
First(extracted) == CHOOSE n \in extracted : TRUE

\* lines 142-145: the effective staged root
MergeSingle(p) ==
    /\ Running(p, "merge_single")
    /\ LET f == Top(p) IN
        \/ /\ ~f.merge_single
           /\ Step(p, "branch")
        \/ /\ f.merge_single
           /\ IsDir(fs, f.temp_path)
           /\ LET extracted == ListDir(fs, f.temp_path) IN
              /\ SetTop(p, [f EXCEPT !.extracted = extracted,
                                     !.temp_path = IF FlattenCond(extracted)
                                                   THEN Append(f.temp_path, First(extracted))
                                                   ELSE f.temp_path,
                                     !.pc = "branch"])
              /\ UNCHANGED result
        \/ /\ f.merge_single
           /\ Raise(p, "OSError", "io")
    /\ staged' = IF Len(stack[p]) = 1
                 THEN [staged EXCEPT ![p] = Lookup(fs, Top(p).temp_dir)]
                 ELSE staged
    /\ UNCHANGED <<fs, budget, req, pre, allocated, trace>>

\* line 147: os.path.isfile(temp_path)
Branch(p) ==
    /\ Running(p, "branch")
    /\ Step(p, IF IsFile(fs, Top(p).temp_path) THEN "sf_overwrite" ELSE "listdir")
    /\ UNCHANGED <<fs, budget, req, pre, staged, allocated, trace>>

\* line 148: os.path.join(to_directory, extracted[0])
SfDestination(f) == Append(f.to_directory, First(f.extracted))

\* a removal that keeps what it removes under a backup name
remove_to_backup(f, path) ==
    Store(Store(f, path, Absent), Append(Parent(path), Last(path) \o "~"), Lookup(f, path))

\* os.remove(path) of lines 151 and 166
remove(f, path) == Store(f, path, Absent)

\* lines 149-151: an existing file at the destination path is removed
SfOverwrite(p) ==
    /\ Running(p, "sf_overwrite")
    /\ LET f == Top(p) IN
        \/ /\ IsFile(fs, SfDestination(f))
           /\ fs' = remove(fs, SfDestination(f))
           /\ Step(p, "sf_rename")
        \/ /\ IsFile(fs, SfDestination(f))
           /\ fs' = fs
           /\ Raise(p, "OSError", "io")
        \/ /\ ~IsFile(fs, SfDestination(f))
           /\ fs' = fs
           /\ Step(p, "sf_rename")
    /\ UNCHANGED <<budget, req, pre, staged, allocated, trace>>

\* the result of os.rename(src, dst) for a directory src: an empty directory
\* at dst is replaced, anything else there makes it fail
RenameDirResult(f, src, dst) ==
    LET t == Lookup(f, dst)
    IN IF t.k = "none" \/ (t.k = "dir" /\ DOMAIN t.e = {})
       THEN [ok |-> TRUE, fs |-> Store(Store(f, src, Absent), dst, Lookup(f, src))]
       ELSE [ok |-> FALSE, fs |-> f]

\* lines 152-153: an existing directory at the destination path is renamed
\* to destination_path + random_id()
SfRename(p) ==
    /\ Running(p, "sf_rename")
    /\ LET f == Top(p)
           d == SfDestination(f)
       IN
        \/ /\ IsDir(fs, d)
           /\ \E id \in Ids :
                LET r == RenameDirResult(fs, d, Append(Parent(d), Last(d) \o id))
                IN /\ fs' = r.fs
                   /\ IF r.ok THEN Step(p, "sf_move") ELSE Raise(p, "OSError", "io")
        \/ /\ IsDir(fs, d)
           /\ fs' = fs
           /\ Raise(p, "OSError", "io")
        \/ /\ ~IsDir(fs, d)
           /\ fs' = fs
           /\ Step(p, "sf_move")
    /\ UNCHANGED <<budget, req, pre, staged, allocated, trace>>

\* line 155: shutil.move(temp_path, to_directory)
SfMove(p) ==
    /\ Running(p, "sf_move")
    /\ LET f == Top(p)
           m == MoveResult(fs, f.temp_path, f.to_directory)
       IN
        \/ /\ m.ok
           /\ fs' = m.fs
           /\ Step(p, "sf_removedirs")
        \/ /\ fs' = fs
           /\ Raise(p, "OSError", "io")
    /\ UNCHANGED <<budget, req, pre, staged, allocated, trace>>

\* a pruning that removes the parent whether it is empty or not
PruneParent(f, path) == IF path = <<>> THEN f ELSE Store(f, path, Absent)

RECURSIVE Prune(_, _)
\* os.removedirs after the leaf is gone: empty parents are removed upwards
\* until one is not empty (the root of the model is never removed)
Prune(f, path) ==
    IF path = <<>> THEN f
    ELSE IF IsDir(f, path) /\ ListDir(f, path) = {}
         THEN Prune(Store(f, path, Absent), Parent(path))
         ELSE f

\* line 156: os.removedirs(temp_dir)
SfRemovedirs(p) ==
    /\ Running(p, "sf_removedirs")
    /\ LET f == Top(p) IN
        \/ /\ IsDir(fs, f.temp_dir) /\ ListDir(fs, f.temp_dir) = {}
           /\ fs' = Prune(Store(fs, f.temp_dir, Absent), Parent(f.temp_dir))
           /\ Step(p, "return")
        \/ /\ fs' = fs
           /\ Raise(p, "OSError", "io")
    /\ UNCHANGED <<budget, req, pre, staged, allocated, trace>>

\* line 158: os.listdir(temp_path), evaluated once for the loop
ListEntries(p) ==
    /\ Running(p, "listdir")
    /\ LET f == Top(p) IN
        \/ /\ IsDir(fs, f.temp_path)
           /\ SetTop(p, [f EXCEPT !.todo = ListDir(fs, f.temp_path), !.pc = "loop"])
           /\ UNCHANGED result
        \/ Raise(p, "OSError", "io")
    /\ UNCHANGED <<fs, budget, req, pre, staged, allocated, trace>>

\* system.path_exists(path): true of whatever is at the path
path_exists(f, path) == Lookup(f, path).k # "none"

\* a merge that never replaces what the destination already has
EntryRouteKeepExisting(f, destination_path) ==
    IF path_exists(f, destination_path)
    THEN IF IsDir(f, destination_path) THEN "e_merge" ELSE "loop"
    ELSE "e_move"

\* the branch lines 163-179 take for a staged entry: remove and move over an
\* existing file, merge into an existing directory, leave anything else that
\* exists alone, move to a free path
EntryRoute(f, destination_path) ==
    IF path_exists(f, destination_path)
    THEN IF IsFile(f, destination_path) THEN "e_remove"
         ELSE IF IsDir(f, destination_path) THEN "e_merge"
         ELSE "loop"
    ELSE "e_move"

\* lines 158-165, 168, 178: the next entry of the loop and the branch taken
EntryCheck(p) ==
    /\ Running(p, "loop")
    /\ LET f == Top(p) IN
        \/ /\ f.todo = {}
           /\ Step(p, "delete_folder")
        \/ \E n \in f.todo :
              /\ SetTop(p, [f EXCEPT !.cur = n, !.todo = f.todo \ {n},
                                     !.pc = EntryRoute(fs, Append(f.to_directory, n))])
              /\ UNCHANGED result
    /\ UNCHANGED <<fs, budget, req, pre, staged, allocated, trace>>

\* line 166: os.remove(destination_path)
EntryRemove(p) ==
    /\ Running(p, "e_remove")
    /\ LET f == Top(p)
           destination_path == Append(f.to_directory, f.cur)
       IN
        \/ /\ Lookup(fs, destination_path).k \in {"file", "other"}
           /\ fs' = remove(fs, destination_path)
           /\ Step(p, "e_move")
        \/ /\ fs' = fs
           /\ Raise(p, "OSError", "io")
    /\ UNCHANGED <<budget, req, pre, staged, allocated, trace>>

\* lines 167 and 179: shutil.move(source_path, destination_path)
EntryMove(p) ==
    /\ Running(p, "e_move")
    /\ LET f == Top(p)
           m == MoveResult(fs, Append(f.temp_path, f.cur), Append(f.to_directory, f.cur))
       IN
        \/ /\ m.ok
           /\ fs' = m.fs
           /\ Step(p, "loop")
        \/ /\ fs' = fs
           /\ Raise(p, "OSError", "io")
    /\ UNCHANGED <<budget, req, pre, staged, allocated, trace>>

RECURSIVE MergeTree(_, _)
\* system.merge_folders(source, destination): directory d after the content
\* of s has been merged into it; what d has and s has not is kept, a file of
\* s replaces a file of d, directories are merged recursively
MergeTree(d, s) ==
    IF s.k # "dir" THEN d
    ELSE Dir([n \in DOMAIN d.e \cup DOMAIN s.e |->
                IF n \notin DOMAIN s.e THEN d.e[n]
                ELSE IF n \notin DOMAIN d.e THEN s.e[n]
                ELSE IF d.e[n].k = "dir" THEN MergeTree(d.e[n], s.e[n])
                ELSE IF d.e[n].k = "file" /\ s.e[n].k = "file" THEN s.e[n]
                ELSE d.e[n]])

RECURSIVE MergeBlocked(_, _)
\* a staged directory meets a plain file of the destination at some depth:
\* merge_folders fails
MergeBlocked(d, s) ==
    /\ s.k = "dir"
    /\ \E n \in DOMAIN d.e \cap DOMAIN s.e :
          \/ d.e[n].k # "dir" /\ s.e[n].k = "dir"
          \/ d.e[n].k = "dir" /\ MergeBlocked(d.e[n], s.e[n])

RECURSIVE MergeUnspecified(_, _)
\* a staged file meets a directory of the destination: nothing says what
\* merge_folders does with it (it may skip it or fail)
MergeUnspecified(d, s) ==
    \/ s.k # "dir"
    \/ \E n \in DOMAIN d.e \cap DOMAIN s.e :
          /\ d.e[n].k = "dir"
          /\ MergeUnspecified(d.e[n], s.e[n])

\* the outcomes of system.merge_folders(source, destination): it fails where
\* a staged directory meets a plain file, may fail or skip where a staged
\* file meets a directory, and otherwise merges
merge_folders(f, source, destination) ==
    LET d == Lookup(f, destination)
        s == Lookup(f, source)
        merged == Store(f, destination, MergeTree(d, s))
    IN (IF d.k = "dir" /\ ~MergeBlocked(d, s) THEN {[ok |-> TRUE, fs |-> merged]} ELSE {})
       \cup (IF d.k # "dir" THEN {[ok |-> FALSE, fs |-> f]} ELSE {})
       \cup (IF d.k = "dir" /\ (MergeBlocked(d, s) \/ MergeUnspecified(d, s))
             THEN {[ok |-> FALSE, fs |-> f], [ok |-> FALSE, fs |-> merged]} ELSE {})

\* lines 171-177: an OSError of merge_folders is raised as ExtractError
MergeHandler(exc) == IF exc = "OSError" THEN "ExtractError" ELSE exc

\* lines 169-177: system.merge_folders(source_path, destination_path)
EntryMerge(p) ==
    /\ Running(p, "e_merge")
    /\ LET f == Top(p) IN
        \/ \E m \in merge_folders(fs, Append(f.temp_path, f.cur), Append(f.to_directory, f.cur)) :
              /\ fs' = m.fs
              /\ IF m.ok THEN Step(p, "loop") ELSE Raise(p, MergeHandler("OSError"), "merge")
        \/ /\ fs' = fs
           /\ Raise(p, MergeHandler("OSError"), "io")
    /\ UNCHANGED <<budget, req, pre, staged, allocated, trace>>

\* a cleanup that removes the effective staged root only: the staging
\* directory stays behind when one level was flattened
CleanupTargetRootOnly(f) == f.temp_path

\* a cleanup that is handed the wrong directory
CleanupTargetDestination(f) == f.to_directory

\* line 180: the directory handed to system.delete_folder
CleanupTarget(f) == f.temp_dir

\* system.delete_folder(path) removes the directory tree at path
delete_folder(f, path) == Store(f, path, Absent)

\* a cleanup that removes every .extract-* directory of the destination
DeleteFolderAll(p) ==
    /\ Running(p, "delete_folder")
    /\ LET d == Lookup(fs, Top(p).to_directory)
           keep == {n \in DOMAIN d.e : ~(Len(n) > 9 /\ SubSeq(n, 1, 9) = ".extract-")}
       IN \/ /\ fs' = Store(fs, Top(p).to_directory, Dir([n \in keep |-> d.e[n]]))
             /\ Step(p, "return")
          \/ /\ fs' = fs
             /\ Raise(p, "OSError", "io")
    /\ UNCHANGED <<budget, req, pre, staged, allocated, trace>>

\* line 180: system.delete_folder(temp_dir)
DeleteFolder(p) ==
    /\ Running(p, "delete_folder")
    /\ \/ /\ fs' = delete_folder(fs, CleanupTarget(Top(p)))
          /\ Step(p, "return")
       \/ /\ fs' = fs
          /\ Raise(p, "OSError", "io")
    /\ UNCHANGED <<budget, req, pre, staged, allocated, trace>>

\* lines 181-182: return path, to_directory
Return(p) ==
    /\ Running(p, "return")
    /\ stack' = [stack EXCEPT ![p] = Tail(@)]
    /\ result' = IF Len(stack[p]) = 1
                 THEN [result EXCEPT ![p] =
                        [status |-> "ok", exc |-> "", cause |-> "", at |-> "return", entry |-> "",
                         ret |-> [src |-> Top(p).path, dst |-> Top(p).to_directory]]]
                 ELSE result
    /\ UNCHANGED <<fs, budget, req, pre, staged, allocated, trace>>

Next ==
    \E p \in Procs :
        \/ Call(p)
        \/ Start(p)
        \/ ExtractTar(p)
        \/ DecompressGz(p)
        \/ Extract7zip(p)
        \/ CheckInnoExe(p)
        \/ ExeTest(p)
        \/ DecompressGog(p)
        \/ ExtractAppImage(p)
        \/ DebMkdir(p)
        \/ DebControl(p)
        \/ DebData(p)
        \/ DebRemove(p)
        \/ MergeSingle(p)
        \/ Branch(p)
        \/ SfOverwrite(p)
        \/ SfRename(p)
        \/ SfMove(p)
        \/ SfRemovedirs(p)
        \/ ListEntries(p)
        \/ EntryCheck(p)
        \/ EntryRemove(p)
        \/ EntryMove(p)
        \/ EntryMerge(p)
        \/ DeleteFolder(p)
        \/ Return(p)

Spec == Init /\ [][Next]_vars

(***************************************************************************)
(* The functions of the module called on their own: a thread calls         *)
(* guess_extractor(path) or is_7zip_supported(path, extractor), or starts  *)
(* extract_archive(path, "dest", extractor=extractor) up to the choice of  *)
(* the backend and the run of 7z.  req holds the arguments, result the     *)
(* value returned.                                                         *)
(***************************************************************************)
\* the beginnings and the suffixes of the paths the functions are called on
Stems == {"a", "/d/a", "/d.e/a", "a.tar", "a.b", ".a", ""}
Suffixes ==
    {"", ".tar", ".tar.gz", ".tgz", ".tar.xz", ".txz", ".tar.lzma", ".tar.bz2",
     ".tbz2", ".tbz", ".tar.zst", ".tzst", ".gz", ".exe", ".deb", ".AppImage",
     ".zip", ".ZIP", ".7z", ".Tar", ".EXE", ".appimage", ".gzip", ".", ".tar.", ".rar"}
FnPaths == {st \o su : st \in Stems, su \in Suffixes} \ {""}
\* the extractor arguments ("None": not given)
FnExtractors ==
    {"None", "tar", "tgz", "txz", "tbz2", "bz2", "tzst", "gzip", "gog", "exe", "deb",
     "AppImage", "zip", "7z", "auto", "ZIP", "Rar", "foo", "gz"}

\* the value v returned by function fn
Value(fn, v) == [NoResult EXCEPT !.status = "value", !.at = fn, !.ret = [src |-> v, dst |-> <<>>]]
Returned(p, fn) == result[p].status = "value" /\ result[p].at = fn

InitFn ==
    \E path \in FnPaths, extractor \in FnExtractors :
        /\ fs = Dir(One("dest", Dir(Empty)))
        /\ stack = [p \in Procs |-> <<>>]
        /\ budget = [p \in Procs |-> IF p = 1 THEN 1 ELSE 0]
        /\ req = [p \in Procs |-> Request(path, extractor, TRUE, Empty, NoDeb)]
        /\ result = [p \in Procs |-> NoResult]
        /\ pre = [p \in Procs |-> Empty]
        /\ staged = [p \in Procs |-> Absent]
        /\ allocated = [p \in Procs |-> {}]
        /\ trace = [p \in Procs |-> <<>>]

\* a client calls guess_extractor(path)
GuessExtractor(p) ==
    /\ budget[p] > 0
    /\ stack[p] = <<>>
    /\ budget' = [budget EXCEPT ![p] = @ - 1]
    /\ result' = [result EXCEPT ![p] = Value("guess_extractor", guess_extractor(req[p].path))]
    /\ UNCHANGED <<fs, stack, req, pre, staged, allocated, trace>>

\* a client calls is_7zip_supported(path, extractor)
Is7zipSupported(p) ==
    /\ budget[p] > 0
    /\ stack[p] = <<>>
    /\ budget' = [budget EXCEPT ![p] = @ - 1]
    /\ result' = [result EXCEPT ![p] =
            Value("is_7zip_supported", is_7zip_supported(req[p].path, req[p].extractor))]
    /\ UNCHANGED <<fs, stack, req, pre, staged, allocated, trace>>

NextFn ==
    \E p \in Procs :
        \/ GuessExtractor(p)
        \/ Is7zipSupported(p)
        \/ Call(p)
        \/ Start(p)
        \/ Extract7zip(p)

SpecFn == InitFn /\ [][NextFn]_vars

(***************************************************************************)
(* Two threads that extract tar archives into the same destination at the  *)
(* same time.  The steps of the two calls interleave at every file-system  *)
(* call.                                                                   *)
(***************************************************************************)
\* the threads that call
Callers == {p \in Procs : p <= 2}
\* the archives of the two calls
PairTrees ==
    { One("a", File("new")), One("b", Dir(One("a", File("new")))) }

\* what the destination of the two calls holds before them
PairDest == One("c", File("old"))

InitPair ==
    \E r \in [Callers -> {Request("/x.tar", "None", ms, t, NoDeb) : ms \in BOOLEAN, t \in PairTrees}] :
        /\ fs = Dir(One("dest", Dir(PairDest)))
        /\ stack = [p \in Procs |-> <<>>]
        /\ budget = [p \in Procs |-> IF p \in Callers THEN 1 ELSE 0]
        /\ req = [p \in Procs |-> IF p \in Callers THEN r[p] ELSE Request("/x.tar", "None", TRUE, Empty, NoDeb)]
        /\ result = [p \in Procs |-> NoResult]
        /\ pre = [p \in Procs |-> Empty]
        /\ staged = [p \in Procs |-> Absent]
        /\ allocated = [p \in Procs |-> {}]
        /\ trace = [p \in Procs |-> <<>>]

NextPair ==
    \E p \in Procs :
        \/ Call(p)
        \/ Start(p)
        \/ ExtractTar(p)
        \/ MergeSingle(p)
        \/ Branch(p)
        \/ SfOverwrite(p)
        \/ SfRename(p)
        \/ SfMove(p)
        \/ SfRemovedirs(p)
        \/ ListEntries(p)
        \/ EntryCheck(p)
        \/ EntryRemove(p)
        \/ EntryMove(p)
        \/ EntryMerge(p)
        \/ DeleteFolder(p)
        \/ Return(p)

SpecPair == InitPair /\ [][NextPair]_vars

(***************************************************************************)
(* One caller that extracts the same tar archive into the same destination *)
(* again when its first call has returned.                                 *)
(***************************************************************************)
InitTwice ==
    \E ms \in BOOLEAN, t \in ArchiveTrees, d \in DestTrees :
        /\ fs = Dir(One("dest", Dir(d)))
        /\ stack = [p \in Procs |-> <<>>]
        /\ budget = [p \in Procs |-> IF p = 1 THEN 2 ELSE 0]
        /\ req = [p \in Procs |-> Request("/x.tar", "None", ms, t, NoDeb)]
        /\ result = [p \in Procs |-> NoResult]
        /\ pre = [p \in Procs |-> Empty]
        /\ staged = [p \in Procs |-> Absent]
        /\ allocated = [p \in Procs |-> {}]
        /\ trace = [p \in Procs |-> <<>>]

\* the first call of the client
FirstCall(p) ==
    /\ result[p].status = "none"
    /\ budget[p] > 1
    /\ Call(p)

\* the client calls again with the same arguments after a call that returned
CallAgain(p) ==
    /\ result[p].status = "ok"
    /\ Call(p)

NextTwice ==
    \E p \in Procs :
        \/ FirstCall(p)
        \/ CallAgain(p)
        \/ Start(p)
        \/ ExtractTar(p)
        \/ MergeSingle(p)
        \/ Branch(p)
        \/ SfOverwrite(p)
        \/ SfRename(p)
        \/ SfMove(p)
        \/ SfRemovedirs(p)
        \/ ListEntries(p)
        \/ EntryCheck(p)
        \/ EntryRemove(p)
        \/ EntryMove(p)
        \/ EntryMerge(p)
        \/ DeleteFolder(p)
        \/ Return(p)

SpecTwice == InitTwice /\ [][NextTwice]_vars

(***************************************************************************)
(* What the properties below talk about.                                   *)
(***************************************************************************)
Finished(p) == result[p].status # "none"
Succeeded(p) == result[p].status = "ok"
Failed(p) == result[p].status = "raised"

\* the entries of the destination directory
Final == Lookup(fs, DestPath).e

\* the top-level entries of the effective staged root of a call: the
\* children of the single staged directory when merge_single is set, the
\* staged entries otherwise (st is the staging directory the backend left)
EffectiveEntries(st, ms) ==
    IF st.k # "dir" THEN Empty
    ELSE IF ms /\ Cardinality(DOMAIN st.e) = 1
         THEN LET n == CHOOSE m \in DOMAIN st.e : TRUE
              IN IF st.e[n].k = "dir" THEN st.e[n].e ELSE st.e
         ELSE st.e

Effective(p) == EffectiveEntries(staged[p], req[p].merge_single)

\* the opener a request is dispatched to
OpenerOf(r) ==
    get_archive_opener(IF r.extractor = "None" THEN guess_extractor(AbsPath(r.path))
                       ELSE r.extractor).opener

Logged(p, cmd) == {i \in 1..Len(trace[p]) : trace[p][i].cmd = cmd}

(***************************************************************************)
(* C1.  A call of extract_archive that returns has removed every staging   *)
(* directory it allocated: its own .extract-<id> and the one of the        *)
(* recursive call made for the data tarball of a Debian package.           *)
(***************************************************************************)
C1_StagingRemoved ==
    \A p \in Procs :
        Succeeded(p) => \A t \in allocated[p] : ~Exists(fs, t)

\* a Debian package has been extracted with its recursive call, and both
\* staging directories are gone
C1_Witness ==
    \E p \in Procs :
        /\ Succeeded(p)
        /\ Cardinality(allocated[p]) = 2
        /\ staged[p].k = "dir"
        /\ \A t \in allocated[p] : ~Exists(fs, t)

RECURSIVE Kept(_, _, _)
\* directory r still has everything directory d had and directory s does not
\* provide, at every depth
Kept(d, s, r) ==
    /\ r.k = "dir"
    /\ \A m \in DOMAIN d.e :
          IF m \notin DOMAIN s.e
          THEN m \in DOMAIN r.e /\ r.e[m] = d.e[m]
          ELSE (d.e[m].k = "dir" /\ s.e[m].k = "dir")
                    => (m \in DOMAIN r.e /\ Kept(d.e[m], s.e[m], r.e[m]))

(***************************************************************************)
(* C2.  Whether the call succeeds or fails, every entry the destination    *)
(* had before the call under a name that is not a top-level name of the    *)
(* effective staged root is still there, unchanged; and where a staged     *)
(* directory meets a directory of the destination, what the destination    *)
(* directory had and the archive does not provide is kept at every depth.  *)
(***************************************************************************)
C2_DestinationKept ==
    \A p \in Procs :
        Finished(p) =>
            /\ \A n \in DOMAIN pre[p] \ DOMAIN Effective(p) :
                  n \in DOMAIN Final /\ Final[n] = pre[p][n]
            /\ \A n \in DOMAIN pre[p] \cap DOMAIN Effective(p) :
                  (pre[p][n].k = "dir" /\ Effective(p)[n].k = "dir")
                      => (n \in DOMAIN Final /\ Kept(pre[p][n], Effective(p)[n], Final[n]))

\* a staged directory has been merged into a destination directory two levels
\* deep, next to an entry of the destination the archive does not provide
C2_Witness ==
    \E p \in Procs :
        /\ Succeeded(p)
        /\ \E n \in DOMAIN pre[p] \cap DOMAIN Effective(p) :
              /\ pre[p][n].k = "dir" /\ Effective(p)[n].k = "dir"
              /\ \E m \in DOMAIN pre[p][n].e \cap DOMAIN Effective(p)[n].e :
                    /\ pre[p][n].e[m].k = "dir" /\ Effective(p)[n].e[m].k = "dir"
                    /\ DOMAIN pre[p][n].e[m].e \ DOMAIN Effective(p)[n].e[m].e # {}
                    /\ DOMAIN Effective(p)[n].e[m].e \ DOMAIN pre[p][n].e[m].e # {}

(***************************************************************************)
(* C3.  If 7z or innoextract exits with a non-zero code during the         *)
(* extraction, extract_archive does not return its success result.         *)
(***************************************************************************)
C3_NonZeroExitFails ==
    \A p \in Procs :
        (\E i \in Logged(p, "7z x") \cup Logged(p, "innoextract -e") : trace[p][i].rc > 0)
            => ~Succeeded(p)

(***************************************************************************)
(* C4.  A failure caused by an I/O or decoding error, in whichever phase   *)
(* (backend, listing, remove / rename / move of the merge, merge_folders,  *)
(* cleanup), reaches the caller as ExtractError.                           *)
(***************************************************************************)
C4_IoFailureIsExtractError ==
    \A p \in Procs :
        (Failed(p) /\ result[p].cause \in {"io", "decode", "merge"})
            => result[p].exc = "ExtractError"

(***************************************************************************)
(* C5.  A format mismatch (an exe that is neither installer nor archive, a *)
(* file given to the GOG backend without the InnoSetup signature,          *)
(* innoextract failing to extract) reaches the caller as RuntimeError and  *)
(* is never turned into ExtractError.                                      *)
(***************************************************************************)
C5_MismatchIsRuntimeError ==
    \A p \in Procs :
        (Failed(p) /\ result[p].cause \in {"not_archive", "not_gog", "inno_failed"})
            => result[p].exc = "RuntimeError"

\* an exe failed the 7za test after the probe said it is no installer
C5_Witness ==
    \E p \in Procs :
        /\ Failed(p)
        /\ result[p].cause = "not_archive"
        /\ result[p].exc = "RuntimeError"
        /\ Logged(p, "innoextract -i") # {}

\* the probe did not find innoextract
ProbeMissing(p) == Logged(p, "check_inno_exe") # {}
\* the call went on to the 7za test of the generic path
GenericPath(p) == Logged(p, "7za t") # {}
\* a tool was not found when the extraction itself needed it
ExtractionToolMissing(p) ==
    \/ Logged(p, "decompress_gog") # {}
    \/ \E i \in Logged(p, "7z x") : trace[p][i].arg = "missing"

(***************************************************************************)
(* C6 as stated.  When innoextract cannot be located during the probe, the *)
(* probe does not raise and the extraction goes down the generic-archive   *)
(* path, for GenericExe and for GogInstaller; when a tool is missing       *)
(* during the extraction itself, the call fails.                           *)
(***************************************************************************)
C6_ProbeMissingGoesGeneric ==
    \A p \in Procs :
        /\ (ProbeMissing(p) /\ Finished(p)) => GenericPath(p)
        /\ (ExtractionToolMissing(p) /\ Finished(p)) => Failed(p)

(***************************************************************************)
(* C6 as amended.  When innoextract cannot be located during the probe,    *)
(* the probe does not raise.  For GenericExe the extraction goes down the  *)
(* generic-archive path (the 7za test); for GogInstaller there is no such  *)
(* path and the call fails with the RuntimeError "not a GOG setup file".   *)
(* When a tool is missing during the extraction itself, the call fails.    *)
(***************************************************************************)
C6_ProbeMissingDegrades ==
    \A p \in Procs :
        /\ ~(Failed(p) /\ result[p].at = "probe" /\ result[p].exc = "MissingExecutableError")
        /\ (ProbeMissing(p) /\ Finished(p)) =>
              IF OpenerOf(req[p]) = "exe"
              THEN GenericPath(p)
              ELSE Failed(p) /\ result[p].exc = "RuntimeError" /\ result[p].cause = "not_gog"
        /\ (ExtractionToolMissing(p) /\ Finished(p)) =>
              (Failed(p) /\ result[p].exc = "MissingExecutableError")

\* an exe was extracted by 7z after the probe did not find innoextract
C6_Witness ==
    \E p \in Procs :
        /\ ProbeMissing(p)
        /\ OpenerOf(req[p]) = "exe"
        /\ GenericPath(p)
        /\ Succeeded(p)

(***************************************************************************)
(* C7.  After a successful extraction, a destination path that held a      *)
(* regular file and at which the archive stages a regular file holds the   *)
(* archive's file: the old content is gone.  This is so in the single-file *)
(* branch and in the per-entry branch.                                     *)
(***************************************************************************)
C7_Overwrite ==
    \A p \in Procs :
        Succeeded(p) =>
            \A n \in DOMAIN pre[p] \cap DOMAIN Effective(p) :
                (pre[p][n].k = "file" /\ Effective(p)[n].k = "file")
                    => /\ n \in DOMAIN Final
                       /\ Final[n] = Effective(p)[n]
                       /\ Final[n] # pre[p][n]

\* the per-entry branch has replaced a file of the destination, next to
\* another staged entry
C7_Witness ==
    \E p \in Procs :
        /\ Succeeded(p)
        /\ Cardinality(DOMAIN Effective(p)) = 2
        /\ \E n \in DOMAIN pre[p] \cap DOMAIN Effective(p) :
              /\ pre[p][n] = File("old")
              /\ Effective(p)[n] = File("new")
              /\ Final[n] = File("new")

(***************************************************************************)
(* C8.  Extracting an archive whose only content is a file named N into a  *)
(* destination that has a directory N renames that directory to N plus a   *)
(* random suffix, with its content, and puts the new file at N.            *)
(***************************************************************************)
C8_DirectoryRenamed ==
    \A p \in Procs :
        (Finished(p) /\ result[p].cause # "io" /\ staged[p].k = "dir") =>
            \A n \in DOMAIN staged[p].e \cap DOMAIN pre[p] :
                (DOMAIN staged[p].e = {n} /\ staged[p].e[n].k = "file" /\ pre[p][n].k = "dir")
                    => /\ n \in DOMAIN Final
                       /\ Final[n] = staged[p].e[n]
                       /\ \E id \in Ids :
                             /\ (n \o id) \in DOMAIN Final
                             /\ Final[n \o id] = pre[p][n]

(***************************************************************************)
(* C9.  In the per-entry merge, a staged directory that meets a plain     *)
(* file of the destination makes the extraction fail, and that file is not *)
(* replaced by the staged directory.                                       *)
(***************************************************************************)
C9_DirectoryOverFileFails ==
    \A p \in Procs :
        Finished(p) =>
            \A n \in DOMAIN pre[p] \cap DOMAIN Effective(p) :
                (pre[p][n].k = "file" /\ Effective(p)[n].k = "dir")
                    => /\ Failed(p)
                       /\ n \in DOMAIN Final
                       /\ Final[n] = pre[p][n]

\* entries d with the entries s added
Added(d, s) == [n \in DOMAIN d \cup DOMAIN s |-> IF n \in DOMAIN s THEN s[n] ELSE d[n]]

(***************************************************************************)
(* C10.  With merge_single set and one staged top-level entry that is a    *)
(* directory, the children of that directory end up directly under the     *)
(* destination (one level is collapsed, the wrapper itself is not          *)
(* created); with merge_single not set, or with two or more top-level      *)
(* entries, the staged tree is reproduced under the destination.  (Stated  *)
(* for a destination that has none of the names concerned.)                *)
(***************************************************************************)
C10_Flatten ==
    \A p \in Procs :
        (Succeeded(p) /\ staged[p].k = "dir") =>
            LET st == staged[p].e
                ms == req[p].merge_single
            IN /\ \A w \in DOMAIN st :
                    (ms /\ DOMAIN st = {w} /\ st[w].k = "dir" /\ DOMAIN pre[p] \cap DOMAIN st[w].e = {})
                        => Final = Added(pre[p], st[w].e)
               /\ ((~ms \/ Cardinality(DOMAIN st) >= 2) /\ DOMAIN pre[p] \cap DOMAIN st = {})
                        => Final = Added(pre[p], st)

\* a wrapper directory with content has been flattened into a destination
\* that has other entries
C10_Witness ==
    \E p \in Procs :
        /\ Succeeded(p)
        /\ req[p].merge_single
        /\ staged[p].k = "dir"
        /\ pre[p] # Empty
        /\ \E w \in DOMAIN staged[p].e :
              /\ DOMAIN staged[p].e = {w}
              /\ staged[p].e[w].k = "dir"
              /\ staged[p].e[w].e # Empty
              /\ DOMAIN pre[p] \cap DOMAIN staged[p].e[w].e = {}
              /\ Final = Added(pre[p], staged[p].e[w].e)

\* the kinds guess_extractor can return
Kinds == {"tar", "tgz", "txz", "tbz2", "tzst", "gzip", "exe", "deb", "AppImage", "None"}
EndsWithAny(path, sufs) == \E suf \in sufs : EndsWith(path, suf)

(***************************************************************************)
(* C11.  guess_extractor(path) returns tar for .tar; tgz for .tar.gz and   *)
(* .tgz; txz for .tar.xz, .txz and .tar.lzma; tbz2 for .tar.bz2, .tbz2 and *)
(* .tbz; tzst for .tar.zst and .tzst; gzip for a .gz that is not a         *)
(* .tar.gz; exe, deb and AppImage for their suffixes; None for every other *)
(* path.  A .tar.gz is never gzip, and the value is one kind.              *)
(***************************************************************************)
C11_GuessBySuffix ==
    \A p \in Procs :
        Returned(p, "guess_extractor") =>
            LET path == req[p].path
                k == result[p].ret.src
            IN /\ k \in Kinds
               /\ EndsWith(path, ".tar") => k = "tar"
               /\ EndsWithAny(path, {".tar.gz", ".tgz"}) => k = "tgz"
               /\ EndsWithAny(path, {".tar.xz", ".txz", ".tar.lzma"}) => k = "txz"
               /\ EndsWithAny(path, {".tar.bz2", ".tbz2", ".tbz"}) => k = "tbz2"
               /\ EndsWithAny(path, {".tar.zst", ".tzst"}) => k = "tzst"
               /\ (EndsWith(path, ".gz") /\ ~EndsWith(path, ".tar.gz")) => k = "gzip"
               /\ EndsWith(path, ".exe") => k = "exe"
               /\ EndsWith(path, ".deb") => k = "deb"
               /\ EndsWith(path, ".AppImage") => k = "AppImage"
               /\ ~EndsWithAny(path, {".tar", ".tar.gz", ".tgz", ".tar.xz", ".txz", ".tar.lzma",
                                       ".tar.bz2", ".tbz2", ".tbz", ".tar.zst", ".tzst", ".gz",
                                       ".exe", ".deb", ".AppImage"}) => k = "None"

\* guess_extractor has returned tgz, not gzip, for a path that ends in .tar.gz
C11_Witness ==
    \E p \in Procs :
        /\ Returned(p, "guess_extractor")
        /\ req[p].path = "/d/a.tar.gz"
        /\ result[p].ret.src = "tgz"

\* the activation of the extract_archive call a client made (the outermost)
Outer(p) == stack[p][Len(stack[p])]
\* that call has chosen its backend
Dispatched(p) == stack[p] # <<>> /\ Outer(p).pc # "start"

\* the backend that stands for an extractor value
BackendOf(x) ==
    CASE x \in {"tar", "tgz", "txz", "tbz2", "bz2", "tzst"} -> "tarfile"
      [] x = "gzip" -> "gz"
      [] x = "gog" -> "innoextract"
      [] x \in {"exe", "deb", "AppImage"} -> x
      [] OTHER -> "7zip"

(***************************************************************************)
(* C12.  When an extractor is given to extract_archive, the backend is the *)
(* one that stands for that extractor, whatever the suffix of the path;    *)
(* the suffix decides only when no extractor is given.                     *)
(***************************************************************************)
C12_OverrideWins ==
    \A p \in Procs :
        Dispatched(p) =>
            LET f == Outer(p)
                given == req[p].extractor
            IN /\ given # "None" => (f.extractor = given /\ f.opener = BackendOf(given))
               /\ given = "None" => f.opener = BackendOf(guess_extractor(f.path))

\* a path that ends in .tar.gz is handed to the deb backend because the
\* caller said deb
C12_Witness ==
    \E p \in Procs :
        /\ Dispatched(p)
        /\ req[p].path = "/d/a.tar.gz"
        /\ req[p].extractor = "deb"
        /\ Outer(p).opener = "deb"
        /\ Outer(p).pc = "7zip"

\* the first member base+ext of a package, ext in the order of exts; "" when
\* the package has none
FirstMember(base, exts, S) == IF Present(exts, S) = <<>> THEN "" ELSE base \o Head(Present(exts, S))
\* every run of 7z in the call ended with exit code 0
Clean7z(p) == \A i \in Logged(p, "7z x") : trace[p][i].rc = 0

(***************************************************************************)
(* C13.  After a successful extraction of a Debian package, the first      *)
(* control.tar* present (gz, xz, zst, none) lies still compressed under    *)
(* debian/, the content of the first data.tar* present (gz, xz, zst, bz2,  *)
(* lzma, none) is expanded in the destination and that data tarball is not *)
(* left over; the other variants present are not processed.                *)
(***************************************************************************)
C13_DebDecomposed ==
    \A p \in Procs :
        (Succeeded(p) /\ OpenerOf(req[p]) = "deb" /\ Clean7z(p)) =>
            LET deb == req[p].deb
                c == FirstMember("control.tar", ControlExts, deb.controls)
                d == FirstMember("data.tar", DataExts, deb.datas)
            IN /\ "debian" \in DOMAIN Final /\ Final["debian"].k = "dir"
               /\ c # "" => (c \in DOMAIN Final["debian"].e /\ Final["debian"].e[c] = File("control"))
               /\ d # "" => /\ d \notin DOMAIN Final
                            /\ \A n \in DOMAIN req[p].tree \ DOMAIN pre[p] :
                                  n \in DOMAIN Final /\ Final[n] = req[p].tree[n]
               /\ \A x \in deb.controls :
                     ("control.tar" \o x) # c =>
                        (("control.tar" \o x) \in DOMAIN Final /\ Final["control.tar" \o x] = File("control"))
               /\ \A x \in deb.datas :
                     ("data.tar" \o x) # d =>
                        (("data.tar" \o x) \in DOMAIN Final /\ Final["data.tar" \o x] = File("data"))

(***************************************************************************)
(* C14.  Two extractions that run at the same time into the same           *)
(* destination do not touch each other's staging directory: when the merge *)
(* of a call begins, its staging directory holds exactly the entries its   *)
(* own backend staged.                                                     *)
(***************************************************************************)
C14_OwnStagingOnly ==
    \A p \in Procs :
        staged[p].k = "dir" => staged[p].e = req[p].tree

(***************************************************************************)
(* C15.  Two calls that are active at the same time into the same          *)
(* destination hold staging directories of different names, and a call     *)
(* does not take a staging path that a failed call has left behind.        *)
(***************************************************************************)
C15_DistinctStaging ==
    \A p, q \in Procs :
        (p # q /\ Dispatched(p)) =>
            /\ Dispatched(q) => Outer(p).temp_dir # Outer(q).temp_dir
            /\ Failed(q) => \A t \in allocated[q] : Exists(fs, t) => Outer(p).temp_dir # t

HexDigits == {"0", "1", "2", "3", "4", "5", "6", "7", "8", "9", "a", "b", "c", "d", "e", "f"}
\* a name of the form .extract-<8 hexadecimal digits>
StagingNamed(n) ==
    /\ Len(n) = 17
    /\ SubSeq(n, 1, 9) = ".extract-"
    /\ \A i \in 10..17 : SubSeq(n, i, i) \in HexDigits
\* the activations of thread p that have taken their staging path
Allocating(p) == {i \in 1..Len(stack[p]) : stack[p][i].pc # "start"}

C17_ReturnEcho ==
    \A p \in Procs :
        Succeeded(p) =>
            /\ result[p].ret.src = req[p].path
            /\ result[p].ret.dst = DestPath

(***************************************************************************)
(* C18.  is_7zip_supported returns a boolean for every input: with an      *)
(* extractor given, whether the extractor in lower case is one of the      *)
(* supported formats, whatever the path; with none given, whether the      *)
(* extension of the path in lower case is one of them, and False for a     *)
(* path that has no extension.                                             *)
(***************************************************************************)
C18_SupportedIsBoolean ==
    \A p \in Procs :
        Returned(p, "is_7zip_supported") =>
            LET v == result[p].ret.src
                hint == req[p].extractor
                ext == SplitExt(req[p].path)
            IN /\ v \in {"True", "False"}
               /\ hint # "None" => v = Truth(Lower(hint) \in supported_extractors)
               /\ hint = "None" =>
                     v = Truth(ext # "" /\ Lower(LStripDots(ext)) \in supported_extractors)

\* the extractor values that have a backend of their own
Dedicated == {"tar", "tgz", "txz", "tbz2", "bz2", "tzst", "gzip", "gog", "exe", "deb", "AppImage"}
Backends == {"tarfile", "gz", "7zip", "exe", "innoextract", "deb", "AppImage"}
\* the extractor value a request is dispatched on
ExtractorOf(r) == ChooseExtractor(r.extractor, AbsPath(r.path))

(***************************************************************************)
(* C19.  Every extractor value, guessed, given or None, leads to one       *)
(* backend; a value that is not one of the dedicated kinds leads to the    *)
(* generic tool, and 7z is then run with the flag -t<value> exactly when   *)
(* the value is not None and not "auto".                                   *)
(***************************************************************************)
C19_DispatchTotal ==
    \A p \in Procs :
        /\ Dispatched(p) =>
              LET f == Outer(p)
              IN /\ f.opener \in Backends
                 /\ f.opener = BackendOf(f.extractor)
                 /\ f.extractor \notin Dedicated => f.opener = "7zip"
        /\ ExtractorOf(req[p]) \notin Dedicated =>
              \A i \in 1..Len(trace[p]) :
                 /\ trace[p][i].cmd = "7z x"
                 /\ trace[p][i].arg # "missing" =>
                       trace[p][i].arg = IF ExtractorOf(req[p]) \in {"None", "auto"}
                                         THEN ""
                                         ELSE "-t" \o ExtractorOf(req[p])

\* 7z has been run with -tfoo on a path that ends in .tar
C19_Witness ==
    \E p \in Procs :
        /\ req[p].path = "/d/a.tar"
        /\ req[p].extractor = "foo"
        /\ Dispatched(p)
        /\ Outer(p).opener = "7zip"
        /\ trace[p] = <<Event("7z x", 0, "-tfoo")>>

\* the names of the staging directories thread p's call took in the destination
OwnStagingNames(p) == {Last(t) : t \in {u \in allocated[p] : Parent(u) = DestPath}}
\* the entries of the destination other than those staging directories
Outside(p) == [n \in DOMAIN Final \ OwnStagingNames(p) |-> Final[n]]
\* the backend of thread p's call has not returned yet
InBackend(p) ==
    /\ stack[p] # <<>>
    /\ Len(stack[p]) > 1 \/ Outer(p).pc \in TryPcs \cup {"start"}

(***************************************************************************)
(* C20.  The steps of a call follow one another and the merge waits for    *)
(* the backend: while the backend runs, the destination's entries are as   *)
(* they were before the call, apart from the call's staging directory; the *)
(* staging directory is removed only when every staged entry has been      *)
(* processed; and a call that fails before its merge has begun leaves the  *)
(* entries of the destination unchanged and adds nothing but its staging   *)
(* directory.                                                              *)
(***************************************************************************)
C20_MergeGated ==
    \A p \in Procs :
        /\ InBackend(p) => Outside(p) = pre[p]
        /\ (Failed(p) /\ staged[p].k = "none") => Outside(p) = pre[p]
        /\ (Len(stack[p]) = 1 /\ Outer(p).pc = "delete_folder") => Outer(p).todo = {}
        /\ (Len(stack[p]) = 1 /\ staged[p].k = "dir" /\ ~Exists(fs, Outer(p).temp_dir))
              => Outer(p).pc = "return"

\* a tar backend has failed after writing part of the archive: the
\* destination has its old entries and the staging directory left behind
C20_Witness ==
    \E p \in Procs :
        /\ Failed(p)
        /\ result[p].at = "tarfile"
        /\ staged[p].k = "none"
        /\ pre[p] # Empty
        /\ Outside(p) = pre[p]
        /\ \E n \in OwnStagingNames(p) : n \in DOMAIN Final /\ Final[n].e # Empty

\* the probe of thread p's call found the InnoSetup signature
ProbeOk(p) ==
    /\ trace[p] # <<>>
    /\ trace[p][1].cmd = "innoextract -i"
    /\ trace[p][1].rc = 0

(***************************************************************************)
(* C21.  For an exe the InnoSetup probe comes first.  When it succeeds     *)
(* only innoextract is used.  Otherwise 7za is run in test mode, 7z        *)
(* extracts only after a test that returned 0, and a test that fails makes *)
(* the call fail with "not an archive or GOG setup file" without any       *)
(* extraction command having been run.                                     *)
(***************************************************************************)
C21_ExeDecision ==
    \A p \in Procs :
        OpenerOf(req[p]) = "exe" =>
            LET t == trace[p]
            IN /\ t # <<>> => t[1].cmd \in {"check_inno_exe", "innoextract -i"}
               /\ ProbeOk(p) =>
                     \A i \in 2..Len(t) : t[i].cmd \in {"decompress_gog", "innoextract -e"}
               /\ ~ProbeOk(p) =>
                     \A i \in 2..Len(t) :
                        /\ t[i].cmd \in {"7za t", "7z x"}
                        /\ t[i].cmd = "7za t" => i = 2
                        /\ t[i].cmd = "7z x" => (i = 3 /\ t[2].cmd = "7za t" /\ t[2].rc = 0)
               /\ (\E i \in Logged(p, "7za t") : t[i].rc > 0) =>
                     /\ Failed(p)
                     /\ result[p].exc = "RuntimeError"
                     /\ result[p].cause = "not_archive"
                     /\ Logged(p, "7z x") \cup Logged(p, "innoextract -e") = {}

\* an exe without the signature has passed the test and has been extracted
\* by 7z
C21_Witness ==
    \E p \in Procs :
        /\ OpenerOf(req[p]) = "exe"
        /\ Succeeded(p)
        /\ Len(trace[p]) = 3
        /\ trace[p][1] = Event("innoextract -i", 1, "")
        /\ trace[p][2] = Event("7za t", 0, "")
        /\ trace[p][3].cmd = "7z x"

RECURSIVE Carries(_, _)
\* node r carries the staged node s: the file itself, or a directory with
\* every entry of the staged directory, each carried in turn
Carries(s, r) ==
    IF s.k = "dir"
    THEN /\ r.k = "dir"
         /\ \A m \in DOMAIN s.e : m \in DOMAIN r.e /\ Carries(s.e[m], r.e[m])
    ELSE r = s

(***************************************************************************)
(* C22.  A call that returns has discarded nothing that was staged: every  *)
(* top-level entry of the effective staged root is in the destination      *)
(* under its name with the staged content, whatever was at that name       *)
(* before the call (nothing, a file, a directory, something else).         *)
(***************************************************************************)
C22_NothingDiscarded ==
    \A p \in Procs :
        Succeeded(p) =>
            \A n \in DOMAIN Effective(p) :
                n \in DOMAIN Final /\ Carries(Effective(p)[n], Final[n])

\* thread p takes the step of os.removedirs and the file system changes
Removedirs(p) ==
    /\ Running(p, "sf_removedirs")
    /\ stack'[p] # stack[p]
    /\ fs' # fs

(***************************************************************************)
(* C23.  The destination directory survives the cleanup of the single-file *)
(* branch: os.removedirs(temp_dir) removes the staging directory and       *)
(* nothing above it, the directory the file was moved to not being empty;  *)
(* and the destination directory exists after every call that returns.     *)
(***************************************************************************)
C23_DestinationSurvives ==
    /\ [](\A p \in Procs : Succeeded(p) => IsDir(fs, DestPath))
    /\ [][\A p \in Procs :
            Removedirs(p) =>
                /\ fs' = Store(fs, Top(p).temp_dir, Absent)
                /\ IsDir(fs', Top(p).to_directory)
                /\ IsDir(fs', DestPath)]_vars

\* the single-file branch has returned: the one staged file is the only
\* entry of the destination, which was empty, and the staging directory is
\* gone
C23_Witness ==
    \E p \in Procs :
        /\ Succeeded(p)
        /\ req[p].merge_single
        /\ pre[p] = Empty
        /\ \E n \in Names :
              /\ staged[p] = Dir(One(n, File("new")))
              /\ Final = One(n, File("new"))

\* thread p's second call in a row has ended
Again(p) == budget[p] = 0 /\ Finished(p)

(***************************************************************************)
(* C24.  Extracting the same archive with the same merge_single flag into  *)
(* the same destination a second time returns again and leaves the         *)
(* destination as the first extraction left it: the same entries with the  *)
(* same contents, no renamed copy added, no staging directory left.  (A    *)
(* second call fails only on an error of the operating system or of the    *)
(* archive reader, or where merge_folders is handed a staged file for a    *)
(* directory of the destination.)                                          *)
(***************************************************************************)
C24_Idempotent ==
    \A p \in Procs :
        Again(p) =>
            /\ Succeeded(p) =>
                  /\ Final = pre[p]
                  /\ \A n \in DOMAIN Final : ~StagingNamed(n)
            /\ Failed(p) =>
                  \/ result[p].cause \in {"io", "decode"}
                  \/ /\ result[p].cause = "merge"
                     /\ MergeUnspecified(pre[p][result[p].entry], Effective(p)[result[p].entry])

\* a second extraction has returned after overwriting a file and merging a
\* directory the first one had put into the destination
C24_Witness ==
    \E p \in Procs :
        /\ Again(p)
        /\ Succeeded(p)
        /\ \E n, m \in DOMAIN Effective(p) :
              /\ Effective(p)[n].k = "file"
              /\ Effective(p)[m].k = "dir"
              /\ Final[n] = Effective(p)[n]
              /\ Final[m] = Effective(p)[m]
        /\ Final = pre[p]

\* the effective staged root the archive of thread p's request gives
Planned(p) == EffectiveEntries(Dir(req[p].tree), req[p].merge_single)

\* the two calls have no top-level name in common and have not drawn the
\* same staging path
Apart ==
    \A p, q \in Callers :
        p # q => /\ DOMAIN Planned(p) \cap DOMAIN Planned(q) = {}
                 /\ allocated[p] \cap allocated[q] = {}

\* the step thread p is at finds what it needs: the other call has not
\* touched what p staged and has put nothing in p's way
Unhindered(p) ==
    stack[p] # <<>> =>
        LET f == Top(p) IN
        /\ f.pc = "merge_single" => Lookup(fs, f.temp_dir) = Dir(req[p].tree)
        /\ f.pc = "listdir" => IsDir(fs, f.temp_path)
        /\ f.pc = "sf_rename" => ~IsDir(fs, SfDestination(f))
        /\ f.pc = "sf_move" => MoveResult(fs, f.temp_path, f.to_directory).ok
        /\ f.pc = "sf_removedirs" => IsDir(fs, f.temp_dir) /\ ListDir(fs, f.temp_dir) = {}
        /\ f.pc = "e_move" =>
              MoveResult(fs, Append(f.temp_path, f.cur), Append(f.to_directory, f.cur)).ok
        /\ f.pc \notin {"e_remove", "e_merge"}
        /\ f.pc = "delete_folder" => IsDir(fs, f.temp_dir)

(***************************************************************************)
(* C25.  Two calls that run at the same time on one destination, with no   *)
(* top-level name of their effective staged roots in common and different  *)
(* staging ids, do not disturb each other: in every interleaving each step *)
(* of a call finds what the call itself staged, a call fails only on an    *)
(* error of the operating system or of the archive reader, and when both   *)
(* have returned the destination holds what it held before plus the        *)
(* entries of both archives, which is what the two calls give one after    *)
(* the other in either order, and no staging directory.                    *)
(***************************************************************************)
C25_DisjointCallsCommute ==
    Apart =>
        /\ \A p \in Callers :
              /\ Unhindered(p)
              /\ Failed(p) => result[p].cause \in {"io", "decode"}
        /\ (\A p \in Callers : Succeeded(p)) =>
              /\ \A p, q \in Callers :
                    p # q => Final = Added(Added(PairDest, Planned(p)), Planned(q))
              /\ \A n \in DOMAIN Final : ~StagingNamed(n)

\* both calls have returned, one through the single-file branch and one
\* through the loop, the second having been made while the first had staged
\* its archive and not yet merged it
C25_Witness ==
    \E p, q \in Callers :
        /\ p # q
        /\ Apart
        /\ Succeeded(p) /\ Succeeded(q)
        /\ req[p].merge_single /\ staged[p] = Dir(One("a", File("new")))
        /\ DOMAIN Effective(q) = {"b"}
        /\ \E t \in allocated[p] : Last(t) \in DOMAIN pre[q]
        /\ "a" \notin DOMAIN pre[q]
        /\ DOMAIN Final = {"a", "b", "c"}

====
